---- MODULE Spec2Model ----
(***************************************************************************)
(* Violation-tracker scraper: src/main.py (Cloud Function, MySQL, Cloud    *)
(* Storage log) and src/scraper.py (script, SQLite, local log file).       *)
(*                                                                         *)
(* Text is a sequence of one-character strings, so that strip, replace,    *)
(* int() and float() are computed and not assumed.  Money is counted in    *)
(* thousandths of a dollar.                                                *)
(***************************************************************************)
EXTENDS Integers, Sequences, FiniteSets, TLC

VARIABLES
    entry,      \* the call under way: <file>.<function>
    pc,         \* position of the single thread of control
    \* storage
    table,      \* violations table, durable (committed) content, in insertion order
    txn,        \* violations table as the open connection sees it (uncommitted inserts included)
    now,        \* CURRENT_TIMESTAMP of the storage engine
    conn,       \* the run's connection: "none", "open", "closed"
    \* scrape_violation_tracker
    page,       \* loop index
    attempt,    \* attempts made by the fetch_page call under way
    attemptErr, \* what the last attempt raised
    waits,      \* waits between the attempts of the fetch_page call under way
    records,    \* records list
    exc,        \* exception in flight
    lastLog,    \* last logging event: <<level, what>>
    \* the run
    verifyConn, \* the connection verify_results opens: "none", "open", "closed"
    logs,       \* records_processed of every run log written
    \* history
    batch,      \* argument of the store_records call last made
    before,     \* durable table content when that call was entered
    inserted,   \* rows that call added
    repeated,   \* that call was given the same records as the call before it
    origin,     \* origin[i]: the page records[i] was scraped from
    status,     \* status[p]: how page p ended
    expected,   \* while clean: the records of every row of every page fetched so far
    clean,      \* every page fetched so far had its table and only well-formed rows
    slept,      \* time slept since fetch_page was last called
    delays,     \* polite delays taken
    fetches,    \* fetch_page calls made
    requests,   \* attempts of fetch_page made, over all pages
    commits,    \* conn.commit() calls executed
    failed,     \* steps of the run that raised: subset of {"connect", "create", "store", "log", "verify"}
    misuse      \* a storage operation was issued on a connection that was not open

storeVars == <<table, txn, now, batch, before, inserted, repeated, commits>>
pageVars == <<page, attempt, attemptErr, waits, records, exc,
              origin, status, expected, clean, slept, delays, fetches, requests>>
runVars == <<conn, verifyConn, logs, failed, misuse>>
vars == <<entry, pc, lastLog, storeVars, pageVars, runVars>>

-----------------------------------------------------------------------------
(* Bounds *)

MaxBatch == 2       \* records per direct store_records call
MaxCalls == 3       \* direct store_records calls in a row
MaxRows == 2        \* rows of a page, scrape_violation_tracker called directly
MaxRunRows == 1     \* rows of a page, in a whole run

-----------------------------------------------------------------------------
(* Text *)

Digits == {"0", "1", "2", "3", "4", "5", "6", "7", "8", "9"}

DigitVal(c) ==
    CASE c = "0" -> 0 [] c = "1" -> 1 [] c = "2" -> 2 [] c = "3" -> 3
      [] c = "4" -> 4 [] c = "5" -> 5 [] c = "6" -> 6 [] c = "7" -> 7
      [] c = "8" -> 8 [] c = "9" -> 9

RECURSIVE LStrip(_)
LStrip(s) == IF s # <<>> /\ Head(s) = " " THEN LStrip(Tail(s)) ELSE s

RECURSIVE RStrip(_)
RStrip(s) ==
    IF s # <<>> /\ s[Len(s)] = " " THEN RStrip(SubSeq(s, 1, Len(s) - 1)) ELSE s

\* str.strip()
Strip(s) == RStrip(LStrip(s))

Keep(c, ch) == c # ch

\* str.replace(ch, '')
Remove(s, ch) == SelectSeq(s, LAMBDA c : Keep(c, ch))

RECURSIVE DigitsValue(_)
DigitsValue(s) ==
    IF s = <<>> THEN 0
    ELSE 10 * DigitsValue(SubSeq(s, 1, Len(s) - 1)) + DigitVal(s[Len(s)])

AllDigits(s) == \A i \in 1..Len(s) : s[i] \in Digits

\* int(text): the value, or ValueError
ValueError == -1

ParseInt(s) ==
    LET t == Strip(s) IN
    IF t # <<>> /\ AllDigits(t) THEN DigitsValue(t) ELSE ValueError

DotAt(s) == IF \E i \in 1..Len(s) : s[i] = "." THEN CHOOSE i \in 1..Len(s) : s[i] = "." ELSE 0

\* Fraction digits as thousandths: "5" -> 500, "25" -> 250, "004" -> 4
Thousandths(f) ==
    LET d(i) == IF i <= Len(f) THEN DigitVal(f[i]) ELSE 0
    IN  100 * d(1) + 10 * d(2) + d(3)

\* float(text), in thousandths: the value, or ValueError
ParseFloat(s) ==
    LET t == Strip(s)
        k == DotAt(t)
        ip == IF k = 0 THEN t ELSE SubSeq(t, 1, k - 1)
        fp == IF k = 0 THEN <<>> ELSE SubSeq(t, k + 1, Len(t))
    IN  IF AllDigits(ip) /\ AllDigits(fp) /\ Len(ip) + Len(fp) > 0 /\ Len(fp) <= 3
        THEN 1000 * DigitsValue(ip) + Thousandths(fp)
        ELSE ValueError

-----------------------------------------------------------------------------
(* One table row of the page to one record *)

None == <<"None">>

NoError == "none"
IndexError == "IndexError"
ParseError == "ValueError"

OrNone(t) == IF t = <<>> THEN None ELSE t

PenaltyText(cols) == Remove(Remove(Strip(cols[7]), "$"), ",")

PenaltyAmount(cols) ==
    IF PenaltyText(cols) # <<>> THEN ParseFloat(PenaltyText(cols)) ELSE 0

\* The exception the body of the row loop raises on a row, if any
RowError(cols) ==
    IF Len(cols) < 7 THEN IndexError
    ELSE IF PenaltyAmount(cols) = ValueError THEN ParseError
    ELSE IF ParseInt(cols[5]) = ValueError THEN ParseError
    ELSE NoError

\* The record the body of the row loop appends for a row it raises nothing on
RowRecord(cols) ==
         [company |-> Strip(cols[1]),
          current_parent |-> OrNone(Strip(cols[2])),
          current_parent_industry |-> OrNone(Strip(cols[3])),
          primary_offense_type |-> Strip(cols[4]),
          year |-> ParseInt(cols[5]),
          agency |-> Strip(cols[6]),
          penalty_amount |-> PenaltyAmount(cols)]

\* Rows the site serves
RowA == << <<" ", "A">>, <<>>, <<" ">>, <<"x">>, <<"2", "0", "1", "9">>, <<"E">>,
           <<"$", "1", ",", "2", "5", "0", ".", "0", "0">> >>
RowB == << <<"B", " ">>, <<"P">>, <<"I">>, <<"y">>, <<" ", "2", "0", "2", "0">>, <<"E">>,
           <<" ">> >>
RowSameKey == << <<"A">>, <<"Q">>, <<"I">>, <<"z">>, <<"2", "0", "1", "9">>, <<"E">>,
           <<"1", "2", "5", "0">> >>
RowNearKey == << <<"A">>, <<"P">>, <<>>, <<"x">>, <<"2", "0", "1", "9">>, <<"E">>,
           <<"$", "1", ",", "2", "5", "0", ".", "0", "0", "4">> >>
RowShort == << <<"A">>, <<>>, <<>>, <<"x">>, <<"2", "0", "1", "9">>, <<"E">> >>
RowBadYear == << <<"A">>, <<>>, <<>>, <<"x">>, <<"n", "/", "a">>, <<"E">>, <<"$", "5">> >>
RowBadPenalty == << <<"A">>, <<>>, <<>>, <<"x">>, <<"2", "0", "1", "9">>, <<"E">>, <<"$", "T", "B", "D">> >>

-----------------------------------------------------------------------------
(* The violations table *)

MySQL == "mysql"
SQLite == "sqlite"

\* The storage engine behind an entry point
Backend(file) == IF file = "main" THEN MySQL ELSE SQLite

\* penalty_amount as the column keeps it: DECIMAL(15,2) rounds to the cent, REAL keeps the float
StoredPenalty(be, p) == IF be = MySQL THEN ((p + 5) \div 10) * 10 ELSE p

\* UNIQUE (company, year, agency, penalty_amount)
UniqueKey(r) == <<r.company, r.year, r.agency, r.penalty_amount>>

NewRow(be, t, rec, ts) ==
    [id |-> Len(t) + 1,
     company |-> rec.company,
     current_parent |-> rec.current_parent,
     current_parent_industry |-> rec.current_parent_industry,
     primary_offense_type |-> rec.primary_offense_type,
     year |-> rec.year,
     agency |-> rec.agency,
     penalty_amount |-> StoredPenalty(be, rec.penalty_amount),
     created_at |-> ts]

\* Mutant: the constraint also spans current_parent
ConflictsWithParent(t, row) ==
    \E i \in 1..Len(t) :
        UniqueKey(t[i]) = UniqueKey(row) /\ t[i].current_parent = row.current_parent

Conflicts(t, row) == \E i \in 1..Len(t) : UniqueKey(t[i]) = UniqueKey(row)

\* Mutant: REPLACE INTO, the conflicting row is overwritten by the new one
InsertReplace(be, t, rec, ts) ==
    IF Conflicts(t, NewRow(be, t, rec, ts))
    THEN [i \in 1..Len(t) |->
            IF UniqueKey(t[i]) = UniqueKey(NewRow(be, t, rec, ts))
            THEN NewRow(be, t, rec, ts) ELSE t[i]]
    ELSE Append(t, NewRow(be, t, rec, ts))

\* INSERT [OR] IGNORE INTO violations ... VALUES (...)
InsertIgnore(be, t, rec, ts) ==
    IF Conflicts(t, NewRow(be, t, rec, ts)) THEN t ELSE Append(t, NewRow(be, t, rec, ts))

\* The for loop of store_records over the first n records
RECURSIVE InsertAll(_, _, _, _, _)
InsertAll(be, t, recs, n, ts) ==
    IF n = 0 THEN t
    ELSE InsertIgnore(be, InsertAll(be, t, recs, n - 1, ts), recs[n], ts)

RECURSIVE SeqsUpTo(_, _)
SeqsUpTo(S, n) ==
    IF n = 0 THEN {<<>>}
    ELSE LET shorter == SeqsUpTo(S, n - 1)
         IN  shorter \cup {Append(s, x) : s \in {q \in shorter : Len(q) = n - 1}, x \in S}

-----------------------------------------------------------------------------
(* Entry points *)

RunEntries == {"main.run_scraper", "scraper.main"}
ScrapeEntries == {"main.scrape_violation_tracker", "scraper.scrape_violation_tracker"}
StoreEntries == {"main.store_records", "scraper.store_records"}

\* The source file of an entry point
File(e) ==
    IF e \in {"main.run_scraper", "main.scrape_violation_tracker", "main.store_records"}
    THEN "main" ELSE "scraper"

-----------------------------------------------------------------------------
(* fetch_page and its retry decorator *)

StopAfterAttempt == 3
WaitMultiplier == 1
WaitMin == 2
WaitMax == 10
PoliteDelay == 10
LastPage == 3

HTTPError == "HTTPError"
URLError == "URLError"          \* stands for every failure that is no HTTPError
RetryError == "RetryError"
AttributeError == "AttributeError"

FetchErrors == {HTTPError, URLError}

\* Mutant: every exception is retried
RetryIfAnyException(e) == e \in FetchErrors

\* retry=retry_if_exception_type(urllib.error.HTTPError)
RetryIfExceptionType(e) == e = HTTPError

\* Mutant: one more attempt is allowed
StopAfterFour(n) == n >= StopAfterAttempt + 1

\* stop=stop_after_attempt(3)
Stop(n) == n >= StopAfterAttempt

RECURSIVE Pow2(_)
Pow2(n) == IF n = 0 THEN 1 ELSE 2 * Pow2(n - 1)

Min(a, b) == IF a <= b THEN a ELSE b
Max(a, b) == IF a >= b THEN a ELSE b

\* wait=wait_exponential(multiplier=1, min=2, max=10), after attempt n
WaitExponential(n) == Max(Max(0, WaitMin), Min(WaitMultiplier * Pow2(n - 1), WaitMax))

\* What fetch_page raises to its caller once an attempt that raised e is the last one
Surfaced(e) == IF RetryIfExceptionType(e) THEN RetryError ELSE e

-----------------------------------------------------------------------------
(* Pages *)

PageRows == {RowA, RowB, RowShort, RowBadYear, RowBadPenalty}

NoTableBody == [views_table |-> FALSE, tbody |-> FALSE, rows |-> <<>>]
NoTbodyBody == [views_table |-> TRUE, tbody |-> FALSE, rows |-> <<>>]
TableBody(rows) == [views_table |-> TRUE, tbody |-> TRUE, rows |-> rows]

Bodies(n) == {NoTableBody, NoTbodyBody} \cup {TableBody(r) : r \in SeqsUpTo(PageRows, n)}


\* Rows the row loop gets through before one raises
RECURSIVE GoodPrefix(_)
GoodPrefix(rows) ==
    IF rows = <<>> \/ RowError(Head(rows)) # NoError THEN 0
    ELSE 1 + GoodPrefix(Tail(rows))

\* What the row loop raises, if anything
LoopError(rows) ==
    IF GoodPrefix(rows) = Len(rows) THEN NoError ELSE RowError(rows[GoodPrefix(rows) + 1])

\* Rows whose record is in the records list when the row loop is left
Appended(rows) == GoodPrefix(rows)

RecordsOf(rows, n) == [i \in 1..n |-> RowRecord(rows[i])]

WellFormed(body) == body.views_table => (body.tbody /\ LoopError(body.rows) = NoError)

\* What the try block makes of a body: the records the row loop appends, what it
\* raises, and (history) the records of all its rows when each row is well-formed
Scraped(body) ==
    [views_table |-> body.views_table,
     tbody |-> body.tbody,
     appended |-> RecordsOf(body.rows, Appended(body.rows)),
     error |-> LoopError(body.rows),
     all |-> IF WellFormed(body) THEN RecordsOf(body.rows, Len(body.rows)) ELSE <<>>,
     wellFormed |-> WellFormed(body)]

\* Bodies the site may answer with, as the try block takes them
ScrapePages == {Scraped(b) : b \in Bodies(MaxRows)}
RunPages == {Scraped(b) : b \in Bodies(MaxRunRows)}
ServedPages == IF entry \in ScrapeEntries THEN ScrapePages ELSE RunPages

\* The except clause that handles e in scrape_violation_tracker
Handler(file, e) ==
    IF file = "scraper" /\ e = HTTPError THEN "except HTTPError" ELSE "except Exception"

\* Mutant: the loop is left on a page's error
BreakOnError(p) == "returned"

\* Where the except clauses go on: continue
AfterError(p) == "loop"

\* Mutant: no delay before the first page
DelayBetweenPages(p) == IF p > 1 THEN PoliteDelay ELSE 0

\* time.sleep(10) at the top of the loop body
DelayBefore(p) == PoliteDelay

-----------------------------------------------------------------------------
(* Initial values *)

NoLog == <<"", "">>
Pending == "pending"

\* Before any call: no batch of records equals it
NoBatch == <<[company |-> None]>>

StoreInit ==
    /\ txn = table
    /\ now = 0
    /\ batch = NoBatch
    /\ before = <<>>
    /\ inserted = 0
    /\ repeated = FALSE
    /\ commits = 0

PageInit ==
    /\ page = 0
    /\ attempt = 0
    /\ attemptErr = NoError
    /\ waits = <<>>
    /\ records = <<>>
    /\ exc = NoError
    /\ origin = <<>>
    /\ status = [p \in 1..LastPage |-> Pending]
    /\ expected = <<>>
    /\ clean = TRUE
    /\ slept = 0
    /\ delays = 0
    /\ fetches = 0
    /\ requests = 0

RunInit ==
    /\ conn = "none"
    /\ verifyConn = "none"
    /\ logs = <<>>
    /\ failed = {}
    /\ misuse = FALSE
    /\ lastLog = NoLog

-----------------------------------------------------------------------------
(* scrape_violation_tracker *)

\* for page in range(1, 4): time.sleep(10)
NextPage ==
    /\ pc = "loop"
    /\ page < LastPage
    /\ page' = page + 1
    /\ slept' = slept + DelayBefore(page')
    /\ delays' = delays + (IF DelayBefore(page') > 0 THEN 1 ELSE 0)
    /\ attempt' = 0
    /\ attemptErr' = NoError
    /\ waits' = <<>>
    /\ pc' = "fetch_page"
    /\ UNCHANGED <<entry, lastLog, storeVars, runVars, records, exc, origin,
                   status, expected, clean, fetches, requests>>

\* Mutant: a page's records are put in front of the records of the pages before it
Prepend(recs, new) == new \o recs

\* records.append(record), for each record of the page in row order
Collect(recs, new) == recs \o new

\* soup.find('table', class_='views-table') and the row loop, on the body fetched
ParsePage(html) ==
    /\ clean' = (clean /\ html.wellFormed)
    /\ expected' = IF clean' THEN expected \o html.all ELSE <<>>
    /\ IF ~html.views_table
       THEN /\ lastLog' = <<IF File(entry) = "main" THEN "WARNING" ELSE "ERROR", "No table found">>
            /\ status' = [status EXCEPT ![page] = "no table"]
            /\ pc' = "loop"
            /\ UNCHANGED <<records, origin, exc>>
       ELSE IF ~html.tbody
       THEN /\ exc' = AttributeError
            /\ pc' = "page_except"
            /\ UNCHANGED <<records, origin, status, lastLog>>
       ELSE /\ records' = Collect(records, html.appended)
            /\ origin' = origin \o [i \in 1..Len(html.appended) |-> page]
            /\ IF html.error = NoError
               THEN /\ lastLog' = <<"INFO", "Scraped">>
                    /\ status' = [status EXCEPT ![page] = "scraped"]
                    /\ pc' = "loop"
                    /\ UNCHANGED exc
               ELSE /\ exc' = html.error
                    /\ pc' = "page_except"
                    /\ UNCHANGED <<status, lastLog>>

\* One attempt of fetch_page(url): urlopen, read, decode; the attempt that succeeds
\* returns the body to the try block, which runs to its end or to what it raises
FetchAttempt ==
    /\ pc = "fetch_page"
    /\ attempt' = attempt + 1
    /\ fetches' = fetches + (IF attempt = 0 THEN 1 ELSE 0)
    /\ requests' = requests + 1
    /\ slept' = 0
    /\ \/ \E html \in ServedPages :
            /\ attemptErr' = NoError
            /\ ParsePage(html)
       \/ \E e \in FetchErrors :
            /\ attemptErr' = e
            /\ IF RetryIfExceptionType(e) /\ ~Stop(attempt')
               THEN pc' = "before_sleep" /\ UNCHANGED exc
               ELSE pc' = "page_except" /\ exc' = Surfaced(e)
            /\ UNCHANGED <<lastLog, records, origin, status, expected, clean>>
    /\ UNCHANGED <<entry, storeVars, runVars, page, waits, delays>>

\* before_sleep, then the wait before the next attempt
Backoff ==
    /\ pc = "before_sleep"
    /\ lastLog' = <<"INFO", "Retrying request">>
    /\ waits' = Append(waits, WaitExponential(attempt))
    /\ pc' = "fetch_page"
    /\ UNCHANGED <<entry, storeVars, runVars, page, attempt, attemptErr, records,
                   exc, origin, status, expected, clean, slept, delays, fetches, requests>>

\* except urllib.error.HTTPError / except Exception: log, continue
PageExcept ==
    /\ pc = "page_except"
    /\ lastLog' = <<"ERROR", Handler(File(entry), exc)>>
    /\ status' = [status EXCEPT ![page] =
                    IF exc \in FetchErrors \cup {RetryError} THEN "fetch error" ELSE "page error"]
    /\ exc' = NoError
    /\ pc' = AfterError(page)
    /\ UNCHANGED <<entry, storeVars, runVars, page, attempt, attemptErr, waits,
                   records, origin, expected, clean, slept, delays, fetches, requests>>

\* return records
ScrapeReturn ==
    /\ pc = "loop"
    /\ page = LastPage
    /\ pc' = "returned"
    /\ UNCHANGED <<entry, lastLog, storeVars, pageVars, runVars>>

InitScrape ==
    /\ entry \in ScrapeEntries
    /\ pc = "loop"
    /\ table = <<>>
    /\ StoreInit
    /\ PageInit
    /\ RunInit

NextScrape == NextPage \/ FetchAttempt \/ Backoff \/ PageExcept \/ ScrapeReturn

SpecScrape == InitScrape /\ [][NextScrape]_vars

\* The interpreter runs the call on: a step that can be taken is taken
SpecScrapeLive == SpecScrape /\ WF_vars(NextScrape)

-----------------------------------------------------------------------------
(* store_records *)

StoreRows == {RowA, RowB, RowSameKey, RowNearKey}
StoreRecs == {RowRecord(r) : r \in StoreRows}

\* store_records(conn, records), no storage fault: every insert, then the commit
StoreRecords(recs) ==
    /\ now' = now + 1
    /\ txn' = InsertAll(Backend(File(entry)), txn, recs, Len(recs), now')
    /\ table' = txn'
    /\ batch' = recs
    /\ before' = table
    /\ inserted' = Len(txn') - Len(txn)
    /\ repeated' = (recs = batch)
    /\ commits' = commits + 1

\* store_records called directly, again and again, on one open connection
InitStore ==
    /\ entry \in StoreEntries
    /\ pc = "idle"
    /\ table = <<>>
    /\ StoreInit
    /\ PageInit
    /\ RunInit

StoreCall ==
    /\ pc = "idle"
    /\ now < MaxCalls
    /\ \E recs \in SeqsUpTo(StoreRecs, MaxBatch) : StoreRecords(recs)
    /\ UNCHANGED <<entry, pc, lastLog, pageVars, runVars>>

NextStore == StoreCall

SpecStore == InitStore /\ [][NextStore]_vars

-----------------------------------------------------------------------------
(* The run: run_scraper / main_scraper of main.py, main of scraper.py *)

StorageError == "StorageError"      \* mysql.connector.Error, sqlite3.Error
OSError == "OSError"

\* Rows a run before this one may have left in the table
PriorTables(file) ==
    {<<>>, InsertAll(Backend(file), <<>>, <<RowRecord(RowSameKey)>>, 1, 0)}

\* Where an exception raised inside the try block of the top-level function goes
RaiseTo(file) == IF file = "main" THEN "run_except" ELSE "finally"

\* Whether save_logs lets a failure of the log write out to its caller
SaveLogsRaises(file) == file = "scraper"

\* Mutant: the connection is left as it is
CloseSkipped(c) == c

\* conn.close() in the finally block; NameError on an unbound conn is swallowed
Close(c) == IF c = "open" THEN "closed" ELSE c

\* What the invoker of the top-level function gets
Outcome ==
    IF pc # "done" THEN "running"
    ELSE IF exc = NoError THEN "returned" ELSE "raised"

InitRun ==
    /\ entry \in RunEntries
    /\ pc = "connect"
    /\ table \in PriorTables(File(entry))
    /\ StoreInit
    /\ PageInit
    /\ RunInit

\* connect_to_mysql() / connect_to_sqlite(db_file)
Connect ==
    /\ pc = "connect"
    /\ \/ /\ conn' = "open"
          /\ lastLog' = <<"INFO", "Connected">>
          /\ pc' = "create_table"
          /\ UNCHANGED <<failed, exc>>
       \/ /\ failed' = failed \cup {"connect"}
          /\ lastLog' = <<"ERROR", "connection error">>
          /\ IF File(entry) = "main"
             THEN exc' = StorageError /\ pc' = RaiseTo(File(entry))
             ELSE exc' = NoError /\ pc' = "done"
          /\ UNCHANGED conn
    /\ UNCHANGED <<entry, storeVars, verifyConn, logs, misuse, page, attempt, attemptErr,
                   waits, records, origin, status, expected, clean, slept, delays, fetches, requests>>

\* create_table(conn)
CreateTable ==
    /\ pc = "create_table"
    /\ misuse' = (misuse \/ conn # "open")
    /\ \/ /\ lastLog' = <<"INFO", "Created violations table">>
          /\ pc' = "loop"
          /\ UNCHANGED <<failed, exc>>
       \/ /\ failed' = failed \cup {"create"}
          /\ lastLog' = <<"ERROR", "Error creating table">>
          /\ exc' = StorageError
          /\ pc' = RaiseTo(File(entry))
    /\ UNCHANGED <<entry, storeVars, conn, verifyConn, logs, page, attempt, attemptErr,
                   waits, records, origin, status, expected, clean, slept, delays, fetches, requests>>

\* Mutant: the branch is taken whatever the list holds
AlwaysTrue(recs) == TRUE

\* Truth value of a list: it is not empty
Truthy(recs) == recs # <<>>

\* if records: ... else: ...
IfRecords ==
    /\ pc = "returned"
    /\ entry \in RunEntries
    /\ IF Truthy(records) THEN pc' = "store_records" /\ UNCHANGED lastLog
       ELSE IF File(entry) = "main"
       THEN pc' = "finally" /\ lastLog' = <<"INFO", "No records scraped.">>
       ELSE pc' = "save_logs" /\ UNCHANGED lastLog
    /\ UNCHANGED <<entry, storeVars, pageVars, runVars>>

\* Mutant: every insert is durable as soon as it is executed
Autocommit(t, view) == view

\* Durable content when store_records raises: conn.commit() was not reached
Uncommitted(t, view) == t

\* store_records(conn, records) that a storage fault stops at the k-th execute,
\* or at the commit (k = Len(recs) + 1)
StoreRecordsFault(recs, k) ==
    /\ now' = now + 1
    /\ txn' = InsertAll(Backend(File(entry)), txn, recs, k - 1, now')
    /\ batch' = recs
    /\ before' = table
    /\ inserted' = 0
    /\ repeated' = (recs = batch)
    /\ table' = Uncommitted(table, txn')
    /\ UNCHANGED commits

Store ==
    /\ pc = "store_records"
    /\ misuse' = (misuse \/ conn # "open")
    /\ \/ /\ StoreRecords(records)
          /\ lastLog' = <<"INFO", "Stored">>
          /\ pc' = "save_logs"
          /\ UNCHANGED <<failed, exc>>
       \/ /\ \E k \in 1..(Len(records) + 1) : StoreRecordsFault(records, k)
          /\ failed' = failed \cup {"store"}
          /\ lastLog' = <<"ERROR", "Error storing records">>
          /\ exc' = StorageError
          /\ pc' = RaiseTo(File(entry))
    /\ UNCHANGED <<entry, conn, verifyConn, logs, page, attempt, attemptErr,
                   waits, records, origin, status, expected, clean, slept, delays, fetches, requests>>

\* Mutant: the log counts the rows the store added
RowsInserted(recs) == inserted

\* "records_processed": len(records)
RecordsProcessed(recs) == Len(recs)

\* save_logs(records)
SaveLogs ==
    /\ pc = "save_logs"
    /\ \/ /\ logs' = Append(logs, RecordsProcessed(records))
          /\ lastLog' = <<"INFO", "Saved log">>
          /\ pc' = IF File(entry) = "main" THEN "finally" ELSE "verify_results"
          /\ UNCHANGED <<failed, exc>>
       \/ /\ failed' = failed \cup {"log"}
          /\ IF SaveLogsRaises(File(entry))
             THEN exc' = OSError /\ pc' = RaiseTo(File(entry)) /\ UNCHANGED lastLog
             ELSE /\ lastLog' = <<"ERROR", "Error saving log">>
                  /\ pc' = "finally"
                  /\ UNCHANGED exc
          /\ UNCHANGED logs
    /\ UNCHANGED <<entry, storeVars, conn, verifyConn, misuse, page, attempt, attemptErr,
                   waits, records, origin, status, expected, clean, slept, delays, fetches, requests>>

\* verify_results() of scraper.py: a connection of its own, then the log directory
VerifyResults ==
    /\ pc = "verify_results"
    /\ \/ verifyConn' = "closed" /\ UNCHANGED lastLog
       \/ verifyConn' = "open" /\ lastLog' = <<"ERROR", "Error querying database">>
    /\ \/ /\ pc' = "finally"
          /\ UNCHANGED <<failed, exc>>
       \/ /\ failed' = failed \cup {"verify"}
          /\ exc' = OSError
          /\ pc' = RaiseTo(File(entry))
    /\ UNCHANGED <<entry, storeVars, conn, logs, misuse, page, attempt, attemptErr,
                   waits, records, origin, status, expected, clean, slept, delays, fetches, requests>>

\* except Exception as e: of main_scraper
RunExcept ==
    /\ pc = "run_except"
    /\ lastLog' = <<"ERROR", "Unexpected error">>
    /\ exc' = NoError
    /\ pc' = "finally"
    /\ UNCHANGED <<entry, storeVars, runVars, page, attempt, attemptErr,
                   waits, records, origin, status, expected, clean, slept, delays, fetches, requests>>

\* finally: conn.close(); what was not committed is rolled back
Finally ==
    /\ pc = "finally"
    /\ conn' = Close(conn)
    /\ txn' = IF conn' = "closed" THEN table ELSE txn
    /\ lastLog' = <<"INFO", "Finished">>
    /\ pc' = "done"
    /\ UNCHANGED <<entry, table, now, batch, before, inserted, repeated, commits, verifyConn, logs,
                   failed, misuse, pageVars>>

NextRun ==
    \/ Connect \/ CreateTable
    \/ NextPage \/ FetchAttempt \/ Backoff \/ PageExcept \/ ScrapeReturn
    \/ IfRecords \/ Store \/ SaveLogs \/ VerifyResults \/ RunExcept \/ Finally

Spec == InitRun /\ [][NextRun]_vars

-----------------------------------------------------------------------------
(* Claims *)

UniqueIn(t) == \A i, j \in 1..Len(t) : UniqueKey(t[i]) = UniqueKey(t[j]) => i = j

\* C1: after any sequence of store_records calls, whatever the batches (duplicates
\* inside a batch, records that agree on (company, year, agency, penalty_amount)
\* and differ in current_parent), the violations table holds at most one row per
\* (company, year, agency, penalty_amount).
C1_OneRowPerKey == UniqueIn(table) /\ UniqueIn(txn)

\* A batch of two records that agree on the key and differ in current_parent was
\* stored into the empty table, and one row was kept for them.
C1_Witness ==
    /\ batch = <<RowRecord(RowA), RowRecord(RowSameKey)>>
    /\ before = <<>>
    /\ inserted = 1
    /\ Len(table) = 1
    /\ table[1].current_parent = None

\* C2: store_records(R) right after store_records(R) inserts nothing and leaves
\* the table exactly as the first call left it.
C2_Idempotent == repeated => (inserted = 0 /\ table = before)

\* The same non-empty batch was stored twice in a row, the first call having
\* inserted rows.
C2_Witness == repeated /\ batch # <<>> /\ table # <<>> /\ now = 2

\* C3: whatever pages' fetches fail, scrape_violation_tracker still fetches every
\* page and returns; no record of a page whose fetch failed is in the result; when
\* the pages fetched are well-formed the result is exactly their records, in page
\* order; and no step removes or changes a record collected before it.
C3_AtReturn ==
    pc = "returned" =>
        /\ fetches = LastPage
        /\ exc = NoError
        /\ \A i \in 1..Len(origin) : status[origin[i]] # "fetch error"
        /\ clean => records = expected

C3_Kept ==
    /\ Len(records') >= Len(records)
    /\ SubSeq(records', 1, Len(records)) = records

\* C3: per-page failure isolation, at the return (C3_AtReturn) and at every step
\* (C3_Kept).
C3_FailureIsolation == [](C3_AtReturn) /\ [][C3_Kept]_vars

\* Page 2's fetch failed, pages 1 and 3 gave records, and the result is theirs.
C3_Witness ==
    /\ pc = "returned"
    /\ status = <<"scraped", "fetch error", "scraped">>
    /\ clean
    /\ records = expected
    /\ \E i, j \in 1..Len(origin) : origin[i] = 1 /\ origin[j] = 3

\* C4 (as claimed): no record of a page whose processing raised an error is in the
\* sequence scrape_violation_tracker returns.
C4_ErrorPageGivesNothing ==
    pc = "returned" =>
        \A i \in 1..Len(origin) : status[origin[i]] \notin {"fetch error", "page error"}

\* C5: a fetch_page call makes at most 3 attempts, and another attempt is under way
\* only after an attempt that raised HTTPError, fewer than 3 having been made.
C5_RetryPolicy ==
    /\ attempt <= StopAfterAttempt
    /\ (pc \in {"fetch_page", "before_sleep"} /\ attempt > 0) =>
            (attemptErr = HTTPError /\ attempt < StopAfterAttempt)

\* The third attempt is about to be made, after two HTTPErrors.
C5_Witness == pc = "fetch_page" /\ attempt = 2 /\ attemptErr = HTTPError /\ Len(waits) = 2

\* C6 (as claimed): when the third attempt fails with HTTPError too, what fetch_page
\* raises to its caller is that attempt's error.
C6_FinalErrorSurfaced ==
    (pc = "page_except" /\ attempt = StopAfterAttempt /\ attemptErr = HTTPError) =>
        exc = attemptErr

\* C7: each fetch_page call is made with the 10-unit delay just taken, one delay per
\* page, the first page included.
C7_DelayBeforeEveryFetch ==
    /\ (pc = "fetch_page" /\ attempt = 0) =>
            (slept = PoliteDelay /\ delays = page /\ fetches = page - 1)
    /\ pc = "returned" => (delays = LastPage /\ fetches = LastPage)

\* Page 3 is about to be fetched after a page without table and a page whose
\* fetch failed.
C7_Witness ==
    /\ pc = "fetch_page"
    /\ attempt = 0
    /\ page = 3
    /\ status[1] = "no table"
    /\ status[2] = "fetch error"
    /\ slept = PoliteDelay

\* C8 (as claimed): a run whose store_records failed ends with the connection
\* closed and with failure reported to the invoker.
C8_StoreFailureReported ==
    (pc = "done" /\ "store" \in failed) => (conn = "closed" /\ Outcome = "raised")

\* C9 (as claimed): a run whose log write failed still ends normally, with the rows
\* store_records committed in place.
C9_LogFailureNotFatal ==
    (pc = "done" /\ "log" \in failed) =>
        /\ Outcome = "returned"
        /\ "store" \notin failed
        /\ records # <<>> => table = InsertAll(Backend(File(entry)), before, records, Len(records), now)

\* C10: a run that acquired the connection ends with it closed, on every exit path,
\* the connection is closed only as the last step, and no storage operation is
\* issued on a connection that is not open.
C10_ConnectionReleased ==
    /\ (pc = "done" /\ "connect" \notin failed) => conn = "closed"
    /\ conn = "closed" => pc = "done"
    /\ ~misuse

\* store_records failed, the exception is on its way to the invoker, and the
\* connection is closed.
C10_Witness ==
    /\ pc = "done"
    /\ conn = "closed"
    /\ failed = {"store"}
    /\ exc # NoError

Stored(t, rec) ==
    \E i \in 1..Len(t) :
        UniqueKey(t[i]) = UniqueKey(NewRow(Backend(File(entry)), t, rec, now))

SomePageFailed == \E p \in 1..LastPage : status[p] \in {"fetch error", "page error"}

\* C11 (as claimed): whatever fails, the top-level function returns to its invoker;
\* and a run in which some pages failed and some gave records, with no storage or
\* log failure, has every record of the result stored.
C11_AlwaysReturns ==
    pc = "done" =>
        /\ Outcome = "returned"
        /\ (SomePageFailed /\ records # <<>> /\ failed = {}) =>
                \A i \in 1..Len(records) : Stored(table, records[i])

LogWrites == Len(logs) + (IF "log" \in failed THEN 1 ELSE 0)

\* C12 (as claimed): a run without storage error attempts exactly one run-log write,
\* a run that scraped nothing included, and a log write is attempted only after
\* the last page and, when there are records, after store_records has committed.
C12_OneLogLast ==
    /\ (pc = "done" /\ failed \cap {"connect", "create", "store"} = {}) => LogWrites = 1
    /\ LogWrites > 0 =>
        /\ page = LastPage
        /\ \A p \in 1..LastPage : status[p] # Pending
        /\ records # <<>> => (batch = records /\ table = txn /\ "store" \notin failed)

\* C13: the records_processed of a run log is the number of records handed to
\* store_records, the length of the scrape result, and so at least the number of rows
\* the store added (duplicates are counted by the log and skipped by the store).
C13_LogCountsHandedRecords ==
    \A i \in 1..Len(logs) :
        /\ logs[i] = Len(records)
        /\ batch # NoBatch => logs[i] = Len(batch)
        /\ logs[i] >= inserted

\* A run whose log counts more records than the store added rows
C13_Witness ==
    /\ pc = "done"
    /\ Len(logs) = 1
    /\ batch # NoBatch
    /\ inserted > 0
    /\ logs[1] > inserted

NonDecreasing(s) == \A i, j \in 1..Len(s) : i <= j => s[i] <= s[j]

C14_AtReturn ==
    pc = "returned" =>
        /\ Len(origin) = Len(records)
        /\ NonDecreasing(origin)
        /\ clean => records = expected

C14_Kept ==
    \/ records' = records
    \/ \E h \in ServedPages : records' = records \o h.appended

\* C14: the sequence scrape_violation_tracker returns holds the pages' records in
\* ascending page order and, within a page, in row order: every step leaves the list
\* as it is or puts one page's records, in row order, after it, so nothing is
\* reordered, dropped or duplicated; with well-formed pages the result is exactly the
\* rows of pages 1, 2, 3 in that order.
C14_OrderPreserved == [](C14_AtReturn) /\ [][C14_Kept]_vars

\* A result with two different records of one page followed by a record of a later page
C14_Witness ==
    /\ pc = "returned"
    /\ Len(records) >= 3
    /\ origin[1] = origin[2]
    /\ origin[2] < origin[3]
    /\ records[1] # records[2]

\* C15 (as claimed): a page without the results table gives no record and raises
\* nothing, its log event is of warning level, and the loop goes on to the pages
\* after it.
C15_NoTableIsWarning ==
    /\ lastLog[2] = "No table found" => lastLog[1] = "WARNING"
    /\ \A p \in 1..LastPage :
        status[p] = "no table" =>
            /\ \A i \in 1..Len(origin) : origin[i] # p
            /\ page = p => (exc = NoError /\ pc \in {"loop", "returned"})
    /\ pc = "returned" => \A p \in 1..LastPage : status[p] # Pending

\* C16 (as claimed): the waits between the attempts of one fetch_page call double from
\* 2: 2 before the second attempt, 4 before the third, and none is longer than 10.
C16_ExponentialBackoff ==
    \A i \in 1..Len(waits) :
        /\ waits[i] <= 10
        /\ waits[i] = Min(2 * Pow2(i - 1), 10)

\* The stored key of a record
KeyOf(rec) == UniqueKey(NewRow(Backend(File(entry)), <<>>, rec, 0))

FirstWithKey(recs, k) ==
    CHOOSE j \in 1..k :
        /\ KeyOf(recs[j]) = KeyOf(recs[k])
        /\ \A h \in 1..(j - 1) : KeyOf(recs[h]) # KeyOf(recs[k])

\* C17: inserts are insert-if-absent. A store_records call ends without error, every
\* row that existed before it is unchanged in every column (id, current_parent,
\* current_parent_industry, primary_offense_type, created_at included) and in place,
\* and the row kept for a key the call met first comes from the first record with it.
C17_InsertIfAbsent ==
    /\ Len(before) <= Len(table)
    /\ \A i \in 1..Len(before) : table[i] = before[i]
    /\ batch # NoBatch =>
        \A k \in 1..Len(batch) :
            \E i \in 1..Len(table) :
                /\ UniqueKey(table[i]) = KeyOf(batch[k])
                /\ i > Len(before) =>
                    /\ table[i].current_parent = batch[FirstWithKey(batch, k)].current_parent
                    /\ table[i].created_at = now

\* A call was given a record whose key an older row holds with another
\* current_parent, and the older row is as it was
C17_Witness ==
    /\ batch # NoBatch
    /\ before # <<>>
    /\ \E k \in 1..Len(batch) :
        /\ KeyOf(batch[k]) = UniqueKey(before[1])
        /\ batch[k].current_parent # before[1].current_parent
    /\ before[1].created_at < now
    /\ table[1] = before[1]

\* C18: store_records commits once, after its last insert, and only when no insert
\* failed. When an insert or the commit faults, no commit is executed, the error leaves
\* store_records (nothing after it in the try block runs, no run log is written), and
\* once the run has closed the connection the table is what it was before the call.
C18_CommitOnceOrNever ==
    /\ commits <= 1
    /\ (batch # NoBatch /\ "store" \notin failed) =>
        /\ commits = 1
        /\ table = InsertAll(Backend(File(entry)), before, batch, Len(batch), now)
    /\ "store" \in failed =>
        /\ commits = 0
        /\ table = before
        /\ pc \in {"run_except", "finally", "done"}
        /\ logs = <<>>
        /\ (pc = "done" /\ conn = "closed") => txn = before

\* A run whose store_records faulted has ended, its connection closed, and a record
\* of the batch is not in the table
C18_Witness ==
    /\ pc = "done"
    /\ "store" \in failed
    /\ conn = "closed"
    /\ Len(batch) >= 2
    /\ table = before
    /\ \E k \in 1..Len(batch) :
        \A i \in 1..Len(table) : UniqueKey(table[i]) # KeyOf(batch[k])

SetupFailed == failed \cap {"connect", "create"} # {}

\* C19: a run connects and ensures the table before its first delay or fetch; when the
\* connection or the table creation fails nothing is fetched, stored or logged; and
\* store_records is called at most once in a run, only after all 3 pages have been
\* attempted, with the scrape result, which is then not empty.
C19_RunOrder ==
    /\ (delays > 0 \/ fetches > 0) =>
        /\ conn # "none"
        /\ ~SetupFailed
        /\ pc \notin {"connect", "create_table"}
    /\ SetupFailed =>
        /\ delays = 0 /\ fetches = 0 /\ requests = 0
        /\ now = 0 /\ commits = 0 /\ batch = NoBatch /\ txn = table
        /\ logs = <<>> /\ "log" \notin failed
    /\ now <= 1
    /\ batch # NoBatch =>
        /\ now = 1
        /\ page = LastPage
        /\ \A p \in 1..LastPage : status[p] # Pending
        /\ batch = records
        /\ batch # <<>>

\* A run that connected, created the table, went through the 3 pages and then called
\* store_records once has ended
C19_Witness ==
    /\ pc = "done"
    /\ ~SetupFailed
    /\ now = 1
    /\ batch = records
    /\ fetches = LastPage
    /\ conn = "closed"

C20_Bounds ==
    /\ page <= LastPage
    /\ delays = page
    /\ attempt <= StopAfterAttempt
    /\ requests <= LastPage * StopAfterAttempt
    /\ pc = "returned" =>
        /\ page = LastPage
        /\ fetches = LastPage
        /\ delays = LastPage
        /\ requests >= LastPage

\* C20: scrape_violation_tracker always terminates, having gone through exactly 3
\* pages and taken exactly 3 delays, with at most 3 attempts for a page and at most 9
\* attempts in all.
C20_Terminates == [](C20_Bounds) /\ <>[](pc = "returned")

\* A call that needed every attempt of every page has returned
C20_Witness ==
    /\ pc = "returned"
    /\ page = LastPage
    /\ delays = LastPage
    /\ requests = LastPage * StopAfterAttempt

====
